---- MODULE Spec2Model ----
(***************************************************************************)
(* Model of lib/datastax/graph/options.js: the merge of the user's graph   *)
(* query options over the per-profile cached defaults, and the custom      *)
(* payload that results.                                                   *)
(*                                                                         *)
(* JavaScript values are records [t, v]: t is the type tag and v a         *)
(* sequence of integers (the code points of a string, the bytes of a       *)
(* Buffer, the single number of a Number, the address of an object).       *)
(* Objects live in a heap, address -> (property name -> value); a property *)
(* that is missing reads as undefined.                                     *)
(***************************************************************************)
EXTENDS Integers, Sequences, FiniteSets, TLC

VARIABLES
  heap,             \* address -> object (options objects and payload maps)
  cache,            \* profileManager._graphOptionsCache: profile name -> defaults
  consistencyNames, \* the module-level table of options.js:25, empty until loaded
  baseOptions,      \* the client's graph base options, fixed at construction
  call,             \* the createQueryOptions call in progress or just finished
  heap0,            \* the heap as it was when that call was entered
  cache0,           \* the cache as it was when that call was entered
  factoryLog        \* per profile, the retry policies createDefaultOptions ran with

vars == <<heap, cache, consistencyNames, baseOptions, call, heap0, cache0, factoryLog>>

----------------------------------------------------------------------------
(* Bounds of the model *)

\* The largest number of option fields a user sets in one options object.
MaxOverrides == 2

----------------------------------------------------------------------------
(* JavaScript values *)

Undefined == [t |-> "undefined", v |-> <<>>]
Null == [t |-> "null", v |-> <<>>]
Str(s) == [t |-> "string", v |-> s]
Num(n) == [t |-> "number", v |-> <<n>>]
Buf(bytes) == [t |-> "buffer", v |-> bytes]
Ref(a) == [t |-> "object", v |-> <<a>>]
Policy(id) == [t |-> "policy", v |-> <<id>>]
\* A callback passed where the options object is expected.
Callback == [t |-> "function", v |-> <<>>]
\* The Error thrown by getConsistencyName, as the outcome of an evaluation.
ConsistencyError == [t |-> "error", v |-> <<>>]

Addr(ref) == ref.v[1]

\* ToBoolean of a value: what `!x`, `x || y` and `if (x)` test.
Truthy(x) ==
  CASE x.t = "undefined" -> FALSE
    [] x.t = "null" -> FALSE
    [] x.t = "string" -> x.v # <<>>
    [] x.t = "number" -> x.v[1] # 0
    [] OTHER -> TRUE

\* a || b
Or(a, b) == IF Truthy(a) THEN a ELSE b

\* `x > 0` as line 119 and line 171 evaluate it: null converts to 0 and
\* undefined to NaN, so only a positive number passes.
GreaterThanZero(x) == x.t = "number" /\ x.v[1] > 0

\* Property read and write on an object value.
EmptyObject == [p \in {} |-> Undefined]
Get(obj, p) == IF p \in DOMAIN obj THEN obj[p] ELSE Undefined
Put(obj, p, x) == [q \in DOMAIN obj \cup {p} |-> IF q = p THEN x ELSE obj[q]]
\* Object literal from a set of <<name, value>> pairs.
Literal(pairs) ==
  [p \in {pr[1] : pr \in pairs} |-> (CHOOSE pr \in pairs : pr[1] = p)[2]]

\* The properties an object holds with a value other than undefined.
Keys(obj) == {p \in DOMAIN obj : obj[p] # Undefined}

----------------------------------------------------------------------------
(* Heap *)

\* The lowest free address: addresses of released objects are reused.
NewAddr(h) == CHOOSE a \in 1..(Cardinality(DOMAIN h) + 1) :
                /\ a \notin DOMAIN h
                /\ \A b \in 1..(Cardinality(DOMAIN h) + 1) : b \notin DOMAIN h => a <= b

Store(h, a, obj) == [b \in DOMAIN h \cup {a} |-> IF b = a THEN obj ELSE h[b]]

\* heap[ref][p] := x
SetProp(h, ref, p, x) == Store(h, Addr(ref), Put(h[Addr(ref)], p, x))

\* heap[ref][p]
Prop(h, ref, p) == Get(h[Addr(ref)], p)

----------------------------------------------------------------------------
(* Strings and buffers *)

\* String.prototype.toUpperCase on the code points of an ASCII name.
ToUpperCase(s) == [i \in 1..Len(s) |-> IF s[i] \in 97..122 THEN s[i] - 32 ELSE s[i]]

\* The UTF-8 bytes of a sequence of code points (below 65536).
RECURSIVE Utf8(_)
Utf8(s) ==
  IF s = <<>> THEN <<>>
  ELSE LET c == Head(s)
           first == IF c < 128 THEN <<c>>
                    ELSE IF c < 2048 THEN <<192 + (c \div 64), 128 + (c % 64)>>
                    ELSE <<224 + (c \div 4096), 128 + ((c \div 64) % 64), 128 + (c % 64)>>
       IN first \o Utf8(Tail(s))

\* utils.allocBufferFromString(text): Buffer.from(text, 'utf8').
AllocBufferFromString(text) == Buf(Utf8(text.v))

\* types.Long.fromNumber(value): the <<high, low>> signed 32-bit words of the
\* 64-bit two's complement integer (the model's numbers fit in 32 bits).
LongFromNumber(n) == IF n < 0 THEN <<-1, n>> ELSE <<0, n>>

\* The four bytes, most significant first, of a signed 32-bit word.
WordBytes(w) ==
  LET byte(k) == IF w >= 0 THEN (w \div k) % 256
                 ELSE 255 - (((-(w + 1)) \div k) % 256)
  IN <<byte(16777216), byte(65536), byte(256), byte(1)>>

\* types.Long.toBuffer(value): eight bytes, big-endian.
LongToBuffer(long) == Buf(WordBytes(long[1]) \o WordBytes(long[2]))

\* longBuffer(value), options.js:203.
longBuffer(value) == LongToBuffer(LongFromNumber(value.v[1]))

----------------------------------------------------------------------------
(* utils *)

\* utils.extend(target, source): copies every own property of source whose
\* value is not undefined (null is copied).
Extend(target, source) ==
  [p \in DOMAIN target \cup Keys(source) |->
     IF p \in Keys(source) THEN source[p] ELSE target[p]]

\* utils.ifUndefined(v1, v2)
IfUndefined(v1, v2) == IF v1 # Undefined THEN v1 ELSE v2

\* utils.ifUndefined3(v1, v2, v3)
IfUndefined3(v1, v2, v3) ==
  IF v1 # Undefined THEN v1 ELSE IF v2 # Undefined THEN v2 ELSE v3

----------------------------------------------------------------------------
(* Consistency names *)

\* types.consistencies: <<property name, code>>.
Consistencies ==
  { <<<<97, 110, 121>>, 0>>,                                          \* any
    <<<<111, 110, 101>>, 1>>,                                         \* one
    <<<<116, 119, 111>>, 2>>,                                         \* two
    <<<<116, 104, 114, 101, 101>>, 3>>,                               \* three
    <<<<113, 117, 111, 114, 117, 109>>, 4>>,                          \* quorum
    <<<<97, 108, 108>>, 5>>,                                          \* all
    <<<<108, 111, 99, 97, 108, 81, 117, 111, 114, 117, 109>>, 6>>,    \* localQuorum
    <<<<101, 97, 99, 104, 81, 117, 111, 114, 117, 109>>, 7>>,         \* eachQuorum
    <<<<115, 101, 114, 105, 97, 108>>, 8>>,                           \* serial
    <<<<108, 111, 99, 97, 108, 83, 101, 114, 105, 97, 108>>, 9>>,     \* localSerial
    <<<<108, 111, 99, 97, 108, 79, 110, 101>>, 10>> }                 \* localOne

\* types.consistencies[name]
ConsistencyCode(name) == (CHOOSE pr \in Consistencies : pr[1] = name)[2]

\* The table before loadConsistencyNames has run (`let consistencyNames;`).
NamesNotLoaded == [c \in {} |-> <<>>]

\* loadConsistencyNames(), options.js:229: builds the table once.
loadConsistencyNames(names) ==
  IF DOMAIN names # {} THEN names
  ELSE
    LET upper == [c \in {pr[2] : pr \in Consistencies} |->
                    ToUpperCase((CHOOSE pr \in Consistencies : pr[2] = c)[1])]
        localQuorum == ConsistencyCode(<<108, 111, 99, 97, 108, 81, 117, 111, 114, 117, 109>>)
        eachQuorum == ConsistencyCode(<<101, 97, 99, 104, 81, 117, 111, 114, 117, 109>>)
        localSerial == ConsistencyCode(<<108, 111, 99, 97, 108, 83, 101, 114, 105, 97, 108>>)
        localOne == ConsistencyCode(<<108, 111, 99, 97, 108, 79, 110, 101>>)
    IN [c \in DOMAIN upper |->
          CASE c = localQuorum -> <<76, 79, 67, 65, 76, 95, 81, 85, 79, 82, 85, 77>>
            [] c = eachQuorum -> <<69, 65, 67, 72, 95, 81, 85, 79, 82, 85, 77>>
            [] c = localSerial -> <<76, 79, 67, 65, 76, 95, 83, 69, 82, 73, 65, 76>>
            [] c = localOne -> <<76, 79, 67, 65, 76, 95, 79, 78, 69>>
            [] OTHER -> upper[c]]

\* getConsistencyName without the `if (!name) throw`: a code with no name
\* gives undefined.
getConsistencyNameNoThrow(names, consistency) ==
  IF consistency = Undefined \/ consistency = Null
  THEN [names |-> names, value |-> Undefined]
  ELSE LET loaded == loadConsistencyNames(names)
           code == consistency.v[1]
       IN [names |-> loaded,
           value |-> IF code \in DOMAIN loaded /\ loaded[code] # <<>>
                     THEN Str(loaded[code])
                     ELSE Undefined]

\* getConsistencyName(consistency), options.js:213. The result is the pair of
\* the table afterwards and the value returned; ConsistencyError stands for
\* the throw.
getConsistencyName(names, consistency) ==
  IF consistency = Undefined \/ consistency = Null
  THEN [names |-> names, value |-> Undefined]
  ELSE LET loaded == loadConsistencyNames(names)
           code == consistency.v[1]
       IN [names |-> loaded,
           value |-> IF code \in DOMAIN loaded /\ loaded[code] # <<>>
                     THEN Str(loaded[code])
                     ELSE ConsistencyError]

----------------------------------------------------------------------------
(* Execution profiles and the profile manager *)

\* Profile names, as code points.
DefaultName == <<100, 101, 102, 97, 117, 108, 116>>              \* "default"
Ep1Name == <<101, 112, 49>>                                        \* "ep1"
Ep2Name == <<101, 112, 50>>                                        \* "ep2"
MissingName == <<110, 111, 110, 101>>                              \* "none"

\* profileManager._profiles: the execution profiles of the client. The
\* default profile always carries a retry policy; ep1 sets graph options and
\* a read timeout but no retry policy; ep2 sets a retry policy, a language, a
\* traversal source, and no graph name (null clears the client's).
Profiles ==
  [n \in {DefaultName, Ep1Name, Ep2Name} |->
     CASE n = DefaultName ->
            Literal({<<"name", Str(DefaultName)>>, <<"retry", Policy(0)>>})
       [] n = Ep1Name ->
            Literal({<<"name", Str(Ep1Name)>>,
                     <<"readTimeout", Num(3000)>>,
                     <<"graphOptions",
                       Literal({<<"name", Str(<<103, 114, 97, 112, 104, 50>>)>>,  \* "graph2"
                                <<"readConsistency", Num(6)>>})>>})
       [] n = Ep2Name ->
            Literal({<<"name", Str(Ep2Name)>>,
                     <<"retry", Policy(2)>>,
                     <<"readTimeout", Num(0)>>,
                     <<"graphOptions",
                       Literal({<<"language", Str(<<98, 99>>)>>,               \* "bc"
                                <<"source", Str(<<97>>)>>,                     \* "a"
                                <<"name", Null>>,
                                <<"writeConsistency", Num(1)>>})>>})]

\* The graph base options a client can be built with.
BaseOptionsChoices ==
  { Literal({<<"language", Str(<<103, 103>>)>>,                     \* "gg"
             <<"source", Str(<<103>>)>>,                            \* "g"
             <<"name", Str(<<103, 114, 97, 112, 104, 49>>)>>,       \* "graph1"
             <<"executeAs", Str(<<97, 108, 105, 99, 101>>)>>,       \* "alice"
             <<"readConsistency", Num(1)>>,
             <<"retry", Policy(1)>>,
             <<"readTimeout", Num(2000)>>}),
    Literal({<<"language", Str(<<103, 103>>)>>,
             <<"source", Str(<<103>>)>>,
             <<"retry", Policy(1)>>,
             <<"readTimeout", Num(0)>>}) }

\* profileManager.getProfile(name): this._profiles[name || 'default'].
getProfile(name) ==
  LET key == IF Truthy(name) THEN name.v ELSE DefaultName
  IN IF key \in DOMAIN Profiles THEN Profiles[key] ELSE EmptyObject

\* A profile was found (`!profile` is false).
Found(profile) == DOMAIN profile # {}

\* profileManager.getDefault()
getDefault == Profiles[DefaultName]

\* The cache of a profile manager that has served no graph query.
EmptyCache == [n \in DOMAIN Profiles |-> Undefined]

\* proxyExecuteKey of execution-options.js.
proxyExecuteKey == "ProxyExecute"

----------------------------------------------------------------------------
(* getDefaultGraphOptions, options.js:132 *)

\* profile.graphOptions || utils.emptyObject
ProfileGraphOptions(profile) ==
  IF "graphOptions" \in DOMAIN profile THEN profile["graphOptions"] ELSE EmptyObject

\* The retry policy of the defaults without the test on the profile kind:
\* the graph default retry policy is preferred on every profile.
DefaultRetryAnyProfile(profile, base, defaultRetryPolicy) ==
  Or(defaultRetryPolicy, Or(Get(profile, "retry"), Get(base, "retry")))

\* The retry policy of the defaults, options.js:144-152.
DefaultRetry(profile, base, defaultRetryPolicy) ==
  IF Get(profile, "name") # Get(getDefault, "name")
  THEN Or(Get(profile, "retry"), Get(base, "retry"))
  ELSE Or(defaultRetryPolicy, Get(base, "retry"))

\* The read timeout of the defaults, options.js:170.
DefaultReadTimeout(profile, base) ==
  IfUndefined3(Get(profile, "readTimeout"), Get(getDefault, "readTimeout"),
               Get(base, "readTimeout"))

\* createDefaultOptions(), options.js:133-176: the factory of a profile's
\* defaults. m is the machine state [heap, names]; the result is the state
\* afterwards and the reference to the new defaults object, or
\* ConsistencyError when getConsistencyName throws.
createDefaultOptions(m, base, defaultRetryPolicy, profile) ==
  LET profileOptions == ProfileGraphOptions(profile)
      language == Or(Get(profileOptions, "language"), Get(base, "language"))
      source == Or(Get(profileOptions, "source"), Get(base, "source"))
      payloadAddr == NewAddr(m.heap)
      h1 == Store(m.heap, payloadAddr,
                  Literal({<<"graph-language", AllocBufferFromString(language)>>,
                           <<"graph-source", AllocBufferFromString(source)>>}))
      optionsAddr == NewAddr(h1)
      options == Ref(optionsAddr)
      payload == Ref(payloadAddr)
      h2 == Store(h1, optionsAddr,
                  Literal({<<"customPayload", payload>>,
                           <<"graphLanguage", language>>,
                           <<"graphSource", source>>}))
      h3 == SetProp(h2, options, "retry", DefaultRetry(profile, base, defaultRetryPolicy))
      h4 == IF Truthy(Get(base, "executeAs"))
            THEN SetProp(h3, payload, proxyExecuteKey,
                         AllocBufferFromString(Get(base, "executeAs")))
            ELSE h3
      name == IfUndefined(Get(profileOptions, "name"), Get(base, "name"))
      h5 == IF Truthy(name)
            THEN SetProp(h4, payload, "graph-name", AllocBufferFromString(name))
            ELSE h4
      readConsistency == IfUndefined(Get(profileOptions, "readConsistency"),
                                     Get(base, "readConsistency"))
      rc == IF readConsistency # Undefined
            THEN getConsistencyName(m.names, readConsistency)
            ELSE [names |-> m.names, value |-> Undefined]
      h6 == IF readConsistency # Undefined /\ rc.value.t = "string"
            THEN SetProp(h5, payload, "graph-read-consistency",
                         AllocBufferFromString(rc.value))
            ELSE h5
      writeConsistency == IfUndefined(Get(profileOptions, "writeConsistency"),
                                      Get(base, "writeConsistency"))
      wc == IF writeConsistency # Undefined
            THEN getConsistencyName(rc.names, writeConsistency)
            ELSE [names |-> rc.names, value |-> Undefined]
      h7 == IF writeConsistency # Undefined /\ wc.value.t = "string"
            THEN SetProp(h6, payload, "graph-write-consistency",
                         AllocBufferFromString(wc.value))
            ELSE h6
      readTimeout == DefaultReadTimeout(profile, base)
      h8 == SetProp(h7, options, "readTimeout", readTimeout)
      h9 == IF GreaterThanZero(readTimeout)
            THEN SetProp(h8, payload, "request-timeout", longBuffer(readTimeout))
            ELSE h8
  IN IF readConsistency # Undefined /\ rc.value.t # "string"
     THEN [heap |-> h5, names |-> rc.names, value |-> ConsistencyError]
     ELSE IF writeConsistency # Undefined /\ wc.value.t # "string"
     THEN [heap |-> h6, names |-> wc.names, value |-> ConsistencyError]
     ELSE [heap |-> h9, names |-> wc.names, value |-> options]

\* profileManager.getOrCreateGraphOptions(profile, createInstanceFn): the
\* profile's slot of the cache, filled by the factory on first use. `created`
\* is the outcome of the factory, used only when the slot is empty; a factory
\* that throws leaves the slot empty. m is the machine state
\* [heap, names, cache, log].
getOrCreateGraphOptions(m, profile, defaultRetryPolicy, created) ==
  LET key == Get(profile, "name").v
  IN IF Truthy(m.cache[key])
     THEN [m |-> m, value |-> m.cache[key]]
     ELSE [m |-> [heap |-> created.heap,
                  names |-> created.names,
                  cache |-> IF created.value = ConsistencyError
                            THEN m.cache
                            ELSE [m.cache EXCEPT ![key] = created.value],
                  log |-> [m.log EXCEPT ![key] =
                             IF Len(@) < 2 THEN Append(@, defaultRetryPolicy) ELSE @]],
           value |-> created.value]

\* getDefaultGraphOptions(profileManager, baseOptions, defaultRetryPolicy,
\* profile), options.js:132.
getDefaultGraphOptions(m, base, defaultRetryPolicy, profile) ==
  getOrCreateGraphOptions(m, profile, defaultRetryPolicy,
                          createDefaultOptions(m, base, defaultRetryPolicy, profile))

----------------------------------------------------------------------------
(* createQueryOptions, options.js:64 *)

\* setPayloadKey with the inherit branch tried first: a value the caller
\* gives is used only where the defaults have no entry for the key.
setPayloadKeyPreferDefault(h, options, profileOptions, key, value, converter) ==
  LET target == Prop(h, options, "customPayload")
      inherited == Prop(h, Prop(h, profileOptions, "customPayload"), key)
  IN IF value = Null THEN h
     ELSE IF Truthy(inherited) THEN SetProp(h, target, key, inherited)
     ELSE IF value # Undefined
     THEN SetProp(h, target, key,
                  IF converter = "longBuffer" THEN longBuffer(value)
                  ELSE AllocBufferFromString(value))
     ELSE h

\* setPayloadKey with `value == null` for the suppress test dropped: null
\* falls through to the inherit branch, like undefined.
setPayloadKeyNullInherits(h, options, profileOptions, key, value, converter) ==
  LET target == Prop(h, options, "customPayload")
      inherited == Prop(h, Prop(h, profileOptions, "customPayload"), key)
  IN IF value # Undefined /\ value # Null
     THEN SetProp(h, target, key,
                  IF converter = "longBuffer" THEN longBuffer(value)
                  ELSE AllocBufferFromString(value))
     ELSE IF Truthy(inherited) THEN SetProp(h, target, key, inherited)
     ELSE h

\* setPayloadKey writing to the payload map of profileOptions instead of the
\* one of options.
setPayloadKeyIntoDefaults(h, options, profileOptions, key, value, converter) ==
  LET target == Prop(h, profileOptions, "customPayload")
      inherited == Prop(h, Prop(h, profileOptions, "customPayload"), key)
  IN IF value = Null THEN h
     ELSE IF value # Undefined
     THEN SetProp(h, target, key,
                  IF converter = "longBuffer" THEN longBuffer(value)
                  ELSE AllocBufferFromString(value))
     ELSE IF Truthy(inherited) THEN SetProp(h, target, key, inherited)
     ELSE h

\* setPayloadKey(options, profileOptions, key, value, converter), options.js:188.
\* converter is "longBuffer" or "" (the default, utils.allocBufferFromString).
setPayloadKey(h, options, profileOptions, key, value, converter) ==
  LET target == Prop(h, options, "customPayload")
      inherited == Prop(h, Prop(h, profileOptions, "customPayload"), key)
  IN IF value = Null THEN h
     ELSE IF value # Undefined
     THEN SetProp(h, target, key,
                  IF converter = "longBuffer" THEN longBuffer(value)
                  ELSE AllocBufferFromString(value))
     ELSE IF Truthy(inherited) THEN SetProp(h, target, key, inherited)
     ELSE h

\* noGraphPayloadOptions true only for an options object with no property at
\* all: a retry policy or a profile name alone forces the rebuilt payload.
noGraphPayloadOptionsEmptyOnly(o) == Keys(o) = {}

\* const noGraphPayloadOptions = ..., options.js:77-85, of the user's object.
noGraphPayloadOptions(o) ==
  /\ ~Truthy(Get(o, "customPayload"))
  /\ ~Truthy(Get(o, "graphLanguage"))
  /\ ~Truthy(Get(o, "graphSource"))
  /\ ~Truthy(Get(o, "executeAs"))
  /\ Get(o, "graphName") = Undefined
  /\ Get(o, "graphReadConsistency") = Undefined
  /\ Get(o, "graphWriteConsistency") = Undefined
  /\ Get(o, "readTimeout") = Undefined

\* options = utils.extend({graphLanguage: ..., ...}, options), options.js:87-93:
\* a new object at a new address; the user's object is only read.
MergeOptions(h, defaults, user) ==
  Store(h, NewAddr(h),
        Extend(Literal({<<"graphLanguage", Prop(h, defaults, "graphLanguage")>>,
                        <<"graphSource", Prop(h, defaults, "graphSource")>>,
                        <<"readTimeout", Prop(h, defaults, "readTimeout")>>,
                        <<"retry", Prop(h, defaults, "retry")>>}),
               h[Addr(user)]))

\* options.js:101-107 without the shallow clone: a payload map the user gave
\* is kept as it is.
ClonePayloadNoCopy(h, options) ==
  LET current == Prop(h, options, "customPayload")
      a == NewAddr(h)
  IN IF ~Truthy(current)
     THEN SetProp(Store(h, a, EmptyObject), options, "customPayload", Ref(a))
     ELSE h

\* options.js:101-107: options.customPayload becomes a new empty object or a
\* shallow clone of the user's payload.
ClonePayload(h, options) ==
  LET current == Prop(h, options, "customPayload")
      a == NewAddr(h)
  IN SetProp(Store(h, a, IF ~Truthy(current) THEN EmptyObject
                         ELSE Extend(EmptyObject, h[Addr(current)])),
             options, "customPayload", Ref(a))

\* The timeout test as `>= 0`.
TimeoutPayloadValueNonNegative(readTimeout) ==
  IF readTimeout.t = "number" /\ readTimeout.v[1] >= 0 THEN readTimeout ELSE Null

\* options.readTimeout > 0 ? options.readTimeout : null, options.js:119.
TimeoutPayloadValue(readTimeout) ==
  IF GreaterThanZero(readTimeout) THEN readTimeout ELSE Null

\* options.js:108-120: the payload keys of the merged options, in the order
\* of the code; a throw of getConsistencyName leaves the keys set so far.
\* The writes go to payload maps only, so the fields of `options` are read
\* from the heap as it is on entry.
BuildPayload(m, options, defaults) ==
  LET h1 == setPayloadKey(m.heap, options, defaults, proxyExecuteKey,
                          Prop(m.heap, options, "executeAs"), "")
      h2 == setPayloadKey(h1, options, defaults, "graph-language",
                          Prop(m.heap, options, "graphLanguage"), "")
      h3 == setPayloadKey(h2, options, defaults, "graph-source",
                          Prop(m.heap, options, "graphSource"), "")
      h4 == setPayloadKey(h3, options, defaults, "graph-name",
                          Prop(m.heap, options, "graphName"), "")
      rc == getConsistencyName(m.names, Prop(m.heap, options, "graphReadConsistency"))
      h5 == setPayloadKey(h4, options, defaults, "graph-read-consistency", rc.value, "")
      wc == getConsistencyName(rc.names, Prop(m.heap, options, "graphWriteConsistency"))
      h6 == setPayloadKey(h5, options, defaults, "graph-write-consistency", wc.value, "")
      h7 == setPayloadKey(h6, options, defaults, "request-timeout",
                          TimeoutPayloadValue(Prop(m.heap, options, "readTimeout")),
                          "longBuffer")
  IN IF rc.value = ConsistencyError
     THEN [m |-> [m EXCEPT !.heap = h4, !.names = rc.names], value |-> ConsistencyError]
     ELSE IF wc.value = ConsistencyError
     THEN [m |-> [m EXCEPT !.heap = h5, !.names = wc.names], value |-> ConsistencyError]
     ELSE [m |-> [m EXCEPT !.heap = h7, !.names = wc.names], value |-> options]

\* options.js:75-120: the user's options object merged over the defaults.
MergeOverDefaults(m, defaults, user) ==
  LET merged == MergeOptions(m.heap, defaults, user)
      options == Ref(NewAddr(m.heap))
  IN IF noGraphPayloadOptions(m.heap[Addr(user)])
     THEN [m |-> [m EXCEPT !.heap = SetProp(merged, options, "customPayload",
                                            Prop(merged, defaults, "customPayload"))],
           value |-> options]
     ELSE BuildPayload([m EXCEPT !.heap = ClonePayload(merged, options)],
                       options, defaults)

\* options && options.executionProfile, options.js:65.
ExecutionProfileOf(h, options) ==
  IF options.t = "object" THEN Prop(h, options, "executionProfile") ELSE Undefined

\* createQueryOptions with a profile that is not found replaced by the default
\* profile instead of the early return.
createQueryOptionsDefaultWhenMissing(m, base, defaultRetryPolicy, options) ==
  LET named == getProfile(ExecutionProfileOf(m.heap, options))
      profile == IF Found(named) THEN named ELSE getDefault
      d == getDefaultGraphOptions(m, base, defaultRetryPolicy, profile)
  IN IF d.value = ConsistencyError THEN d
     ELSE IF ~Truthy(options) \/ options.t = "function" THEN d
     ELSE MergeOverDefaults(d.m, d.value, options)

\* createQueryOptions(profileManager, baseOptions, defaultRetryPolicy, options),
\* options.js:64. The result is the machine state afterwards and the value
\* returned, ConsistencyError standing for the throw.
createQueryOptions(m, base, defaultRetryPolicy, options) ==
  LET profile == getProfile(ExecutionProfileOf(m.heap, options))
      d == getDefaultGraphOptions(m, base, defaultRetryPolicy, profile)
  IN IF ~Found(profile) THEN [m |-> m, value |-> options]
     ELSE IF d.value = ConsistencyError THEN d
     ELSE IF ~Truthy(options) \/ options.t = "function" THEN d
     ELSE MergeOverDefaults(d.m, d.value, options)

----------------------------------------------------------------------------
(* The callers *)

\* The values a caller gives each field of the options object. A string
\* field is null, empty or a string; a consistency is null, a registered
\* code or the unregistered code 99; customPayload is the content of the
\* caller's own payload map.
FieldChoices ==
  Literal({
    <<"executionProfile", {Str(Ep1Name), Str(Ep2Name), Str(MissingName)}>>,
    <<"retry", {Policy(5)}>>,
    <<"customPayload", {Literal({<<"user-key", Buf(<<1>>)>>}),
                        Literal({<<"graph-name", Buf(<<2>>)>>,
                                 <<"request-timeout", Buf(<<3>>)>>})}>>,
    <<"graphLanguage", {Null, Str(<<>>), Str(<<120>>)}>>,            \* "x"
    <<"graphSource", {Null, Str(<<121>>)}>>,                         \* "y"
    <<"executeAs", {Null, Str(<<98, 111, 98>>)}>>,                   \* "bob"
    <<"graphName", {Null, Str(<<99, 97, 102, 233>>)}>>,              \* "café"
    <<"graphReadConsistency", {Null, Num(6), Num(99)}>>,
    <<"graphWriteConsistency", {Num(4), Num(99)}>>,
    <<"readTimeout", {Null, Num(0), Num(5000)}>> })

\* The option objects that set at most n of the given fields.
RECURSIVE OptionObjects(_, _)
OptionObjects(fields, n) ==
  IF fields = {} \/ n = 0 THEN {EmptyObject}
  ELSE LET f == CHOOSE x \in fields : TRUE
       IN OptionObjects(fields \ {f}, n)
          \cup {Put(o, f, x) : o \in OptionObjects(fields \ {f}, n - 1),
                               x \in FieldChoices[f]}

\* What a caller passes as `options`: nothing, a callback, or an object.
UserArguments ==
  {[kind |-> k, fields |-> EmptyObject] : k \in {"absent", "callback"}}
  \cup {[kind |-> "object", fields |-> o] :
          o \in OptionObjects(DOMAIN FieldChoices, MaxOverrides)}

\* The defaultRetryPolicy a caller passes.
DefaultRetryPolicies == {Undefined, Policy(3)}

\* The caller builds its argument: the payload map, then the options object
\* that refers to it. The result is the heap and the `options` argument.
BuildArgument(h, u) ==
  IF u.kind = "absent" THEN [heap |-> h, options |-> Undefined]
  ELSE IF u.kind = "callback" THEN [heap |-> h, options |-> Callback]
  ELSE IF "customPayload" \in DOMAIN u.fields
  THEN LET a == NewAddr(h)
           h1 == Store(h, a, u.fields["customPayload"])
           b == NewAddr(h1)
       IN [heap |-> Store(h1, b, Put(u.fields, "customPayload", Ref(a))),
           options |-> Ref(b)]
  ELSE LET b == NewAddr(h)
       IN [heap |-> Store(h, b, u.fields), options |-> Ref(b)]

NoCall == [phase |-> "idle", options |-> Undefined,
           defaultRetryPolicy |-> Undefined, result |-> Undefined]

\* The profile names in a fixed order.
ProfileOrder == <<DefaultName, Ep1Name, Ep2Name>>

\* The addresses the cache keeps alive, in a fixed order: each cached
\* defaults object followed by its payload map.
RECURSIVE LiveSeq(_, _, _)
LiveSeq(h, c, i) ==
  IF i > Len(ProfileOrder) THEN <<>>
  ELSE LET d == c[ProfileOrder[i]]
           payload == IF d = Undefined THEN Undefined ELSE Prop(h, d, "customPayload")
       IN (IF d = Undefined THEN <<>>
           ELSE IF payload.t = "object" THEN <<Addr(d), Addr(payload)>>
           ELSE <<Addr(d)>>)
          \o LiveSeq(h, c, i + 1)

\* Where a moving collector puts the object at address a: its first position
\* in the live sequence.
NewPlace(live, a) ==
  CHOOSE i \in 1..Len(live) : live[i] = a /\ \A j \in 1..(i - 1) : live[j] # a

\* A reference after the move.
Moved(live, x) == IF x.t = "object" THEN Ref(NewPlace(live, Addr(x))) ELSE x

\* The heap after a collection: the live objects, moved, their references
\* to each other updated.
Collect(h, c) ==
  LET live == LiveSeq(h, c, 1)
      places == {NewPlace(live, live[i]) : i \in 1..Len(live)}
  IN [i \in places |-> [p \in DOMAIN h[live[i]] |-> Moved(live, h[live[i]][p])]]

\* The cache after a collection.
CollectCache(h, c) ==
  LET live == LiveSeq(h, c, 1)
  IN [n \in DOMAIN c |-> Moved(live, c[n])]

----------------------------------------------------------------------------
(* Specification *)

Init ==
  /\ heap = [a \in {} |-> EmptyObject]
  /\ cache = EmptyCache
  /\ consistencyNames = NamesNotLoaded
  /\ baseOptions \in BaseOptionsChoices
  /\ call = NoCall
  /\ heap0 = heap
  /\ cache0 = cache
  /\ factoryLog = [n \in DOMAIN Profiles |-> <<>>]

\* One graph query: the caller builds its options and createQueryOptions
\* runs to its return or its throw (GraphExecutionOptions, options.js:260).
Resolve ==
  /\ call.phase = "idle"
  /\ \E u \in UserArguments, p \in DefaultRetryPolicies :
     \E arg \in {BuildArgument(heap, u)} :
     \E r \in {createQueryOptions([heap |-> arg.heap, names |-> consistencyNames,
                                    cache |-> cache, log |-> factoryLog],
                                   baseOptions, p, arg.options)} :
          /\ heap' = r.m.heap
          /\ cache' = r.m.cache
          /\ consistencyNames' = r.m.names
          /\ factoryLog' = r.m.log
          /\ call' = [phase |-> IF r.value = ConsistencyError THEN "threw" ELSE "returned",
                      options |-> arg.options,
                      defaultRetryPolicy |-> p,
                      result |-> r.value]
          /\ heap0' = arg.heap
          /\ cache0' = cache
  /\ UNCHANGED baseOptions

\* The caller is done with the query: its options and the result are
\* dropped, and only what the cache refers to stays on the heap.
Release ==
  /\ call.phase # "idle"
  /\ heap' = Collect(heap, cache)
  /\ cache' = CollectCache(heap, cache)
  /\ call' = NoCall
  /\ heap0' = heap'
  /\ cache0' = cache'
  /\ UNCHANGED <<consistencyNames, baseOptions, factoryLog>>

Next == Resolve \/ Release

Spec == Init /\ [][Next]_vars

----------------------------------------------------------------------------
(* What a finished call looks like *)

Returned == call.phase = "returned"
Threw == call.phase = "threw"

\* The caller passed an options object.
WithObject == call.phase # "idle" /\ call.options.t = "object"

\* The caller's options object as the caller built it (empty when none).
UserObject == IF call.options.t = "object" THEN heap0[Addr(call.options)] ELSE EmptyObject

\* The caller's own payload map as the caller built it (empty when none).
UserPayload ==
  IF Get(UserObject, "customPayload").t = "object"
  THEN heap0[Addr(Get(UserObject, "customPayload"))]
  ELSE EmptyObject

\* The profile the call names, and whether the profile manager has it.
CalledProfile == getProfile(Get(UserObject, "executionProfile"))
OnExistingProfile == call.phase # "idle" /\ Found(CalledProfile)
CalledName == Get(CalledProfile, "name").v

\* The object returned and its payload map.
Result == heap[Addr(call.result)]
ResultPayload == heap[Addr(Get(Result, "customPayload"))]

\* The cached defaults of the called profile and their payload map.
Defaults == heap[Addr(cache[CalledName])]
DefaultsPayload == heap[Addr(Get(Defaults, "customPayload"))]

\* The user fields that decide payload keys, and the key of each
\* (options.js:109-119).
GraphFields == {"executeAs", "graphLanguage", "graphSource", "graphName",
                "graphReadConsistency", "graphWriteConsistency", "readTimeout"}
WireKey(f) ==
  CASE f = "executeAs" -> proxyExecuteKey
    [] f = "graphLanguage" -> "graph-language"
    [] f = "graphSource" -> "graph-source"
    [] f = "graphName" -> "graph-name"
    [] f = "graphReadConsistency" -> "graph-read-consistency"
    [] f = "graphWriteConsistency" -> "graph-write-consistency"
    [] f = "readTimeout" -> "request-timeout"

\* The call took the rebuilt-payload path (options.js:101-120).
Rebuilt == WithObject /\ OnExistingProfile /\ ~noGraphPayloadOptions(UserObject)

----------------------------------------------------------------------------
(* C1 *)

\* C1: on an existing profile, a user field given as null, whose wire key the
\* user's own customPayload does not carry, leaves that key out of the
\* resulting customPayload, whatever the defaults and the other fields are.
C1_NullSuppressesKey ==
  (Returned /\ WithObject /\ OnExistingProfile) =>
    \A f \in GraphFields :
      (Get(UserObject, f) = Null /\ WireKey(f) \notin Keys(UserPayload))
        => WireKey(f) \notin Keys(ResultPayload)

----------------------------------------------------------------------------
(* C2 *)

\* The user's object supplies none of the fields of options.js:78-85.
NoUserOverrides ==
  \A f \in GraphFields \cup {"customPayload"} : Get(UserObject, f) = Undefined

\* C2: a call on an existing profile without user overrides returns the
\* cached defaults' payload map itself: the reference is the one the cache
\* holds (and held on entry, if the profile was cached already), and the call
\* put no payload map on the heap other than the one of defaults it created.
C2_FastPathSharesPayload ==
  (Returned /\ OnExistingProfile /\ NoUserOverrides) =>
    /\ cache[CalledName] # Undefined
    /\ Get(Result, "customPayload") = Get(Defaults, "customPayload")
    /\ cache0[CalledName] # Undefined =>
         /\ cache[CalledName] = cache0[CalledName]
         /\ Get(Result, "customPayload") = Prop(heap0, cache0[CalledName], "customPayload")
         /\ DOMAIN heap \ DOMAIN heap0 \subseteq {Addr(call.result)}
    /\ cache0[CalledName] = Undefined =>
         DOMAIN heap \ DOMAIN heap0 \subseteq
           {Addr(call.result), Addr(cache[CalledName]),
            Addr(Get(Defaults, "customPayload"))}

\* A second call without overrides, with an options object, on a profile
\* whose defaults are cached.
C2_Witness ==
  /\ Returned /\ WithObject /\ OnExistingProfile /\ NoUserOverrides
  /\ cache0[CalledName] # Undefined
  /\ call.result # cache[CalledName]

----------------------------------------------------------------------------
(* C3 *)

\* C3 as stated: on an existing profile, whatever the user options are, the
\* payload carries graph-language and graph-source, each the encoding of the
\* resolved graphLanguage / graphSource.
C3_AlwaysLanguageAndSource ==
  (Returned /\ OnExistingProfile) =>
    \A f \in {"graphLanguage", "graphSource"} :
      /\ WireKey(f) \in Keys(ResultPayload)
      /\ Get(Result, f).t = "string"
      /\ ResultPayload[WireKey(f)] = Buf(Utf8(Get(Result, f).v))

\* C3 amended: when the user leaves graphLanguage (graphSource) unset or
\* gives a non-empty string, the resolved field is the user's string or else
\* the defaults' one, and the payload carries its key with the UTF-8
\* encoding of that resolved field.
C3_LanguageAndSourceUnlessNullOrEmpty ==
  (Returned /\ OnExistingProfile) =>
    \A f \in {"graphLanguage", "graphSource"} :
      (Get(UserObject, f) = Undefined \/ Truthy(Get(UserObject, f))) =>
        /\ Get(Result, f) = IF Get(UserObject, f) = Undefined
                            THEN Get(Defaults, f) ELSE Get(UserObject, f)
        /\ Get(Result, f).t = "string" /\ Get(Result, f).v # <<>>
        /\ WireKey(f) \in Keys(ResultPayload)
        /\ ResultPayload[WireKey(f)] = Buf(Utf8(Get(Result, f).v))

\* The rebuilt path with an overriding language and an inherited source.
C3_Witness ==
  /\ Returned /\ Rebuilt
  /\ Truthy(Get(UserObject, "graphLanguage"))
  /\ Get(UserObject, "graphSource") = Undefined
  /\ Get(Result, "graphLanguage") # Get(Defaults, "graphLanguage")
  /\ "graph-source" \in Keys(ResultPayload)

----------------------------------------------------------------------------
(* C4 *)

\* The number an eight-byte big-endian two's complement buffer holds (for
\* the values that fit in 32 bits), or Undefined for any other buffer.
ReadInt64BE(buffer) ==
  LET b == buffer.v
      low(c1, c2, c3, c4) == c1 * 16777216 + c2 * 65536 + c3 * 256 + c4
  IN IF buffer.t # "buffer" \/ Len(b) # 8 THEN Undefined
     ELSE IF (\A i \in 1..4 : b[i] = 0) /\ b[5] < 128
     THEN Num(low(b[5], b[6], b[7], b[8]))
     ELSE IF (\A i \in 1..4 : b[i] = 255) /\ b[5] >= 128
     THEN Num(-low(255 - b[5], 255 - b[6], 255 - b[7], 255 - b[8]) - 1)
     ELSE Undefined

\* The readTimeout the claim expects: the user's value if supplied, else the
\* profile's, else the default profile's, else the base options' one.
ExpectedReadTimeout ==
  IF Get(UserObject, "readTimeout") # Undefined THEN Get(UserObject, "readTimeout")
  ELSE IF Get(CalledProfile, "readTimeout") # Undefined
  THEN Get(CalledProfile, "readTimeout")
  ELSE IF Get(Profiles[DefaultName], "readTimeout") # Undefined
  THEN Get(Profiles[DefaultName], "readTimeout")
  ELSE Get(baseOptions, "readTimeout")

IsPositive(x) == x.t = "number" /\ x.v[1] > 0

\* C4 as stated: the payload carries request-timeout exactly when the
\* resolved readTimeout is strictly positive, and then as its 64-bit encoding.
C4_TimeoutKeyIffPositive ==
  (Returned /\ OnExistingProfile) =>
    /\ Get(Result, "readTimeout") = ExpectedReadTimeout
    /\ "request-timeout" \in Keys(ResultPayload) <=> IsPositive(ExpectedReadTimeout)
    /\ "request-timeout" \in Keys(ResultPayload) =>
         ReadInt64BE(ResultPayload["request-timeout"]) = ExpectedReadTimeout

\* C4 amended: the payload carries request-timeout exactly when the resolved
\* readTimeout is strictly positive or the user's own customPayload carries
\* that key; a positive readTimeout is there as its 64-bit encoding, and
\* otherwise the entry is the user's own.
C4_TimeoutKeyIffPositiveOrUsers ==
  (Returned /\ OnExistingProfile) =>
    /\ Get(Result, "readTimeout") = ExpectedReadTimeout
    /\ "request-timeout" \in Keys(ResultPayload) <=>
         (IsPositive(ExpectedReadTimeout) \/ "request-timeout" \in Keys(UserPayload))
    /\ IsPositive(ExpectedReadTimeout) =>
         /\ Len(Get(ResultPayload, "request-timeout").v) = 8
         /\ ReadInt64BE(Get(ResultPayload, "request-timeout")) = ExpectedReadTimeout
    /\ (~IsPositive(ExpectedReadTimeout) /\ "request-timeout" \in Keys(UserPayload)) =>
         ResultPayload["request-timeout"] = UserPayload["request-timeout"]

\* A user timeout of 5000 over defaults that carry another positive timeout.
C4_Witness ==
  /\ Returned /\ Rebuilt
  /\ Get(UserObject, "readTimeout") = Num(5000)
  /\ "request-timeout" \in Keys(DefaultsPayload)
  /\ ReadInt64BE(ResultPayload["request-timeout"]) = Num(5000)
  /\ ReadInt64BE(DefaultsPayload["request-timeout"]) # Num(5000)

----------------------------------------------------------------------------
(* C5 *)

UserRetryUnset == Get(UserObject, "retry") = Undefined

\* The retry policy the claim expects on the called profile when the graph
\* default retry policy is p.
ExpectedRetry(p) ==
  IF CalledName = DefaultName
  THEN (IF p # Undefined THEN p ELSE Get(baseOptions, "retry"))
  ELSE IF Get(CalledProfile, "retry") # Undefined
  THEN Get(CalledProfile, "retry")
  ELSE Get(baseOptions, "retry")

\* C5 as stated: without a user retry, the retry policy returned is chosen
\* by profile kind, with the defaultRetryPolicy of that very call on the
\* default profile.
C5_RetryOfThisCall ==
  (Returned /\ OnExistingProfile /\ UserRetryUnset) =>
    Get(Result, "retry") = ExpectedRetry(call.defaultRetryPolicy)

\* C5 amended: on the default profile the policy is the defaultRetryPolicy
\* of the call that created the profile's cached defaults (the first call on
\* it), baseOptions.retry if that call gave none; on another profile it is
\* profile.retry or else baseOptions.retry.
C5_RetryOfFirstCall ==
  (Returned /\ OnExistingProfile /\ UserRetryUnset) =>
    /\ Len(factoryLog[CalledName]) = 1
    /\ Get(Result, "retry") = ExpectedRetry(factoryLog[CalledName][1])

\* A call on the default profile whose defaults an earlier call created with
\* another defaultRetryPolicy.
C5_Witness ==
  /\ Returned /\ OnExistingProfile /\ UserRetryUnset
  /\ CalledName = DefaultName
  /\ cache0[DefaultName] # Undefined
  /\ call.defaultRetryPolicy # factoryLog[DefaultName][1]

----------------------------------------------------------------------------
(* C6 *)

\* The other default keys whose field the user left unset are in the result.
InheritedKeysKept ==
  \A f \in GraphFields \ {"graphName"} :
    (Get(UserObject, f) = Undefined /\ WireKey(f) \in Keys(DefaultsPayload))
      => WireKey(f) \in Keys(ResultPayload)

NullNameOverDefaultName ==
  /\ Returned /\ WithObject /\ OnExistingProfile
  /\ Get(UserObject, "graphName") = Null
  /\ "graph-name" \in Keys(DefaultsPayload)

\* C6 as stated: graphName = null over defaults that carry a graph name
\* gives a payload without graph-name, whatever the other user fields are,
\* and keeps the other default keys the user left unset.
C6_NullNameOmitsKey ==
  NullNameOverDefaultName =>
    /\ "graph-name" \notin Keys(ResultPayload)
    /\ InheritedKeysKept

\* C6 amended: the same, unless the user's own customPayload carries a
\* graph-name entry; that entry is kept as the user gave it.
C6_NullNameOmitsKeyUnlessUsers ==
  NullNameOverDefaultName =>
    /\ "graph-name" \notin Keys(UserPayload) => "graph-name" \notin Keys(ResultPayload)
    /\ "graph-name" \in Keys(UserPayload) =>
         Get(ResultPayload, "graph-name") = UserPayload["graph-name"]
    /\ InheritedKeysKept

\* graphName = null alone over defaults with a name and a proxy user.
C6_Witness ==
  /\ NullNameOverDefaultName
  /\ "graph-name" \notin Keys(ResultPayload)
  /\ proxyExecuteKey \in Keys(DefaultsPayload)
  /\ proxyExecuteKey \in Keys(ResultPayload)

----------------------------------------------------------------------------
(* C7 *)

\* C7: when the profile manager has no profile of the name the user gives,
\* the call returns the user's options object itself, unchanged, throws
\* nothing, and leaves the cache and every object on the heap as they were.
C7_MissingProfileReturnsOptions ==
  (WithObject /\ ~Found(CalledProfile)) =>
    /\ Returned
    /\ call.result = call.options
    /\ heap = heap0
    /\ cache = cache0

\* A call naming a missing profile, with an unregistered consistency, made
\* when defaults of the default profile are cached.
C7_Witness ==
  /\ Returned /\ WithObject /\ ~Found(CalledProfile)
  /\ Get(UserObject, "graphReadConsistency") = Num(99)
  /\ cache0[DefaultName] # Undefined

----------------------------------------------------------------------------
(* C8 *)

\* A numeric consistency code that types.consistencies does not have.
Unregistered(x) == x.t = "number" /\ x.v[1] \notin {pr[2] : pr \in Consistencies}

UserGivesUnregistered ==
  /\ WithObject
  /\ \/ Unregistered(Get(UserObject, "graphReadConsistency"))
     \/ Unregistered(Get(UserObject, "graphWriteConsistency"))

\* An object without its customPayload reference.
Scalars(obj) == [p \in DOMAIN obj \ {"customPayload"} |-> obj[p]]

\* The cached defaults of profile n by value: the fields and the payload map.
Entry(h, c, n) ==
  IF c[n] = Undefined
  THEN [cached |-> FALSE, options |-> EmptyObject, payload |-> EmptyObject]
  ELSE [cached |-> TRUE,
        options |-> Scalars(h[Addr(c[n])]),
        payload |-> h[Addr(Prop(h, c[n], "customPayload"))]]

\* The value the defaults factory computes for profile n when the graph
\* default retry policy is p.
FactoryValue(n, p) ==
  LET r == createDefaultOptions([heap |-> [a \in {} |-> EmptyObject],
                                 names |-> NamesNotLoaded],
                                baseOptions, p, Profiles[n])
  IN Entry(r.heap, [k \in {n} |-> r.value], n)

\* What a call returns, by value.
Outcome(r) ==
  IF r.value.t = "object"
  THEN [value |-> Ref(0),
        options |-> Scalars(r.m.heap[Addr(r.value)]),
        payload |-> IF Prop(r.m.heap, r.value, "customPayload").t = "object"
                    THEN r.m.heap[Addr(Prop(r.m.heap, r.value, "customPayload"))]
                    ELSE EmptyObject]
  ELSE [value |-> r.value, options |-> EmptyObject, payload |-> EmptyObject]

\* Later valid calls: with no options, or naming a profile, with either
\* graph default retry policy.
LaterArguments ==
  {[kind |-> "absent", fields |-> EmptyObject]}
  \cup {[kind |-> "object", fields |-> Literal({<<"executionProfile", n>>})] :
          n \in {Str(Ep1Name), Str(Ep2Name)}}

\* What the call (u, p) returns when made on heap h with cache c.
OutcomeFrom(h, c, u, p) ==
  LET arg == BuildArgument(h, u)
  IN Outcome(createQueryOptions([heap |-> arg.heap, names |-> consistencyNames,
                                 cache |-> c, log |-> factoryLog],
                                baseOptions, p, arg.options))

\* C8 as stated: a call with an unregistered user consistency fails; after
\* the failure every cached entry is one the factory computes for its
\* profile, and a later valid call returns what it would have returned had
\* the failing call never been made.
C8_FailureLeavesNoTrace ==
  /\ UserGivesUnregistered => Threw
  /\ Threw =>
       /\ \A n \in DOMAIN Profiles :
            \/ cache[n] = Undefined
            \/ \E p \in DefaultRetryPolicies : Entry(heap, cache, n) = FactoryValue(n, p)
       /\ \A u \in LaterArguments, p \in DefaultRetryPolicies :
            OutcomeFrom(heap, cache, u, p) = OutcomeFrom(heap0, cache0, u, p)

\* The failing call with every option but executionProfile taken away: the
\* state it leaves.
SameCallWithoutGraphOptions ==
  LET arg == BuildArgument(heap0,
               [kind |-> "object",
                fields |-> [p \in DOMAIN UserObject \cap {"executionProfile"} |->
                              UserObject[p]]])
  IN createQueryOptions([heap |-> arg.heap, names |-> consistencyNames,
                         cache |-> cache0, log |-> factoryLog],
                        baseOptions, call.defaultRetryPolicy, arg.options)

\* C8 amended: on an existing profile a call with an unregistered user
\* consistency fails. After the failure every cached entry is the value the
\* factory computed with the retry policy of the call that created it, and
\* the cache is, entry by entry, what the same call without its graph options
\* (a call that succeeds) would have left: the failing call may create the
\* entry of its own profile, and does nothing else to the cache. A later
\* valid call returns what it would have returned after that call.
C8_FailureLeavesCacheOfValidCall ==
  /\ (UserGivesUnregistered /\ OnExistingProfile) => Threw
  /\ Threw =>
       /\ UserGivesUnregistered /\ OnExistingProfile
       /\ \A n \in DOMAIN Profiles :
            /\ \/ cache[n] = Undefined
               \/ /\ Len(factoryLog[n]) = 1
                  /\ Entry(heap, cache, n) = FactoryValue(n, factoryLog[n][1])
            /\ Entry(heap, cache, n) =
                 Entry(SameCallWithoutGraphOptions.m.heap,
                       SameCallWithoutGraphOptions.m.cache, n)
       /\ \A u \in LaterArguments, p \in DefaultRetryPolicies :
            OutcomeFrom(heap, cache, u, p) =
              OutcomeFrom(SameCallWithoutGraphOptions.m.heap,
                          SameCallWithoutGraphOptions.m.cache, u, p)

\* A failing call that overrides the graph name first, on a profile whose
\* defaults were cached by an earlier call.
C8_Witness ==
  /\ Threw
  /\ Get(UserObject, "graphName").t = "string"
  /\ cache0[CalledName] # Undefined

----------------------------------------------------------------------------
(* C9 *)

----------------------------------------------------------------------------
(* C10 *)

\* C10: whatever the path, the user's options object and the user's payload
\* map are after the call what they were before it; on the rebuilt-payload
\* path the object returned and its payload map are new objects.
C10_UserInputsUntouched ==
  WithObject =>
    /\ heap[Addr(call.options)] = UserObject
    /\ Get(UserObject, "customPayload").t = "object" =>
         heap[Addr(Get(UserObject, "customPayload"))] = UserPayload
    /\ (Returned /\ Rebuilt) =>
         /\ Addr(call.result) \notin DOMAIN heap0
         /\ Addr(Get(Result, "customPayload")) \notin DOMAIN heap0

\* The rebuilt path over a payload map of the user: the result has the
\* user's entry and the keys of the graph options.
C10_Witness ==
  /\ Returned /\ Rebuilt
  /\ "user-key" \in Keys(UserPayload)
  /\ "user-key" \in Keys(ResultPayload)
  /\ "graph-language" \in Keys(ResultPayload)
  /\ "graph-language" \notin Keys(UserPayload)

====
